---- MODULE Spec2Model ----
(***************************************************************************)
(* Request handling of the mongodb-vertex-api Flask application            *)
(* (src/main.py): POST /find_movies, POST /find_movie_by_title and         *)
(* GET /health, with the secret resolver (Google Secret Manager) and the   *)
(* document store (MongoDB Atlas) as external collaborators.               *)
(*                                                                         *)
(* A request is a thread of the WSGI server.  Its handler is cut at the    *)
(* blocking calls, which is where other requests and the environment       *)
(* interleave: parsing and validation, get_mongodb_client (one secret      *)
(* fetch and the client construction), the store query with the shaping    *)
(* of the response.                                                        *)
(*                                                                         *)
(* Strings the code inspects (titles, queries) are sequences of            *)
(* one-character strings; JSON values carry their type in the field t.     *)
(***************************************************************************)
EXTENDS Integers, Sequences, FiniteSets, TLC

VARIABLES
    pc,           \* pc[r]: "idle", "connect", "query" or "done"
    req,          \* req[r]: the request being handled (method, path, body)
    resp,         \* resp[r]: the response returned (status, body)
    secretCalls,  \* secretCalls[r]: what the secret store answered to each call of r
    handles,      \* handles[r]: the MongoClient handles r constructed
    storeCalls,   \* storeCalls[r]: the store operations of r and their outcomes
    secret,       \* the secret store: state of "mongodb-connection-string"
    storeUp,      \* whether the document store is reachable
    collection    \* sample_mflix.movies, in natural order

vars == <<pc, req, resp, secretCalls, handles, storeCalls, secret, storeUp, collection>>

----------------------------------------------------------------------------
(* Bounds *)

NumRequests == 2     \* concurrent requests of Spec
MaxLen == 2          \* longest arbitrary title string of SpecInputs
MaxLimit == 2        \* largest integer limit of SpecInputs

----------------------------------------------------------------------------
(* JSON and BSON values *)

Absent == [t |-> "absent", s |-> <<>>, n |-> 0]
Null == [t |-> "null", s |-> <<>>, n |-> 0]
StrV(s) == [t |-> "str", s |-> s, n |-> 0]
IntV(n) == [t |-> "int", s |-> <<>>, n |-> n]
\* an integer outside the 64-bit range, which Python holds and BSON does not
BigInt == [t |-> "bigint", s |-> <<>>, n |-> 0]
\* the store-native identifier
ObjectId(n) == [t |-> "oid", s |-> <<>>, n |-> n]

HexDigits == <<"0", "1", "2", "3", "4", "5", "6", "7", "8", "9">>

\* a validation that tests `is None` where the code tests truthiness
NotNone(v) == v.t # "null"

\* Python truthiness of a JSON value, as `not query` / `not title` test it
Truthy(v) ==
    CASE v.t = "str" -> v.s # <<>>
      [] v.t = "int" -> v.n # 0
      [] v.t = "bigint" -> TRUE
      [] OTHER -> FALSE

\* dict.get(key, default)
DictGet(data, key, default) ==
    IF data[key].t = "absent" THEN default ELSE data[key]

\* an identifier left as the store returned it
raw(v) == v

\* str() of an identifier: the hexadecimal form of an ObjectId, the decimal form
\* of an integer, a string itself
str(v) ==
    CASE v.t = "str" -> v
      [] v.t = "oid" -> StrV(<<"6", HexDigits[v.n + 1]>>)
      [] v.t = "int" -> StrV(<<HexDigits[v.n + 1]>>)
      [] OTHER -> StrV(<<"N">>)

----------------------------------------------------------------------------
(* The document store *)

\* The documents that may be in sample_mflix.movies.  Identifiers are mostly
\* ObjectIds; a collection may also hold a document inserted with a string _id.
Catalogue ==
    << [_id |-> ObjectId(1), title |-> <<"a", "b">>],
       [_id |-> ObjectId(2), title |-> <<"B", "a">>],
       [_id |-> ObjectId(3), title |-> <<"(", "a", ")", "b">>],
       [_id |-> StrV(<<"k">>), title |-> <<"a", ".">>] >>

RECURSIVE Pick(_, _)
\* the documents of Catalogue whose index is in S, in natural order
Pick(S, i) ==
    IF i > Len(Catalogue) THEN <<>>
    ELSE (IF i \in S THEN <<Catalogue[i]>> ELSE <<>>) \o Pick(S, i + 1)

AllCollections == {Pick(S, 1) : S \in SUBSET (1..Len(Catalogue))}
SmallCollections == {Pick({}, 1), Pick({1}, 1)}

Min(a, b) == IF a < b THEN a ELSE b

\* every ranked list of distinct documents of coll: what $search may return,
\* relevance and order being the store's
RankedHits(coll) ==
    {h \in UNION {[1..k -> 1..Len(coll)] : k \in 0..Len(coll)} :
        \A i, j \in DOMAIN h : i # j => h[i] # h[j]}

\* $limit: a positive 64-bit integer, or the pipeline is rejected
LimitAccepted(limit) == limit.t = "int" /\ limit.n > 0

\* $search.text.query: a string
QueryAccepted(query) == query.t = "str"

\* $project of the pipeline: _id is kept by default
Project(doc) == [_id |-> doc._id, title |-> doc.title]

\* a pipeline whose $limit stage is missing
AggregateUnlimited(coll, h, limit) ==
    [i \in 1..Len(h) |-> Project(coll[h[i]])]

\* the documents the pipeline yields for the hits h: $search, $limit, $project
Aggregate(coll, h, limit) ==
    [i \in 1..Min(limit.n, Len(h)) |-> Project(coll[h[i]])]

----------------------------------------------------------------------------
(* $regex with $options "i": PCRE over the characters of the model, where    *)
(* "." is any character and "(" ")" delimit a group.                         *)

Chars == {"a", "A", "b", ".", "(", ")"}

Lower(c) == CASE c = "A" -> "a" [] c = "B" -> "b" [] OTHER -> c
Upper(c) == CASE c = "a" -> "A" [] c = "b" -> "B" [] OTHER -> c

RECURSIVE Balanced(_, _, _)
\* the pattern compiles: every ")" closes a "(" and every "(" is closed
Balanced(p, i, depth) ==
    IF i > Len(p) THEN depth = 0
    ELSE IF p[i] = "(" THEN Balanced(p, i + 1, depth + 1)
    ELSE IF p[i] = ")" THEN depth > 0 /\ Balanced(p, i + 1, depth - 1)
    ELSE Balanced(p, i + 1, depth)

RegexCompiles(p) == Balanced(p, 1, 0)

\* a group with neither alternation nor quantifier matches what its content matches
Atoms(p) == SelectSeq(p, LAMBDA c : c \notin {"(", ")"})

AtomMatches(a, c) == a = "." \/ Lower(a) = Lower(c)

MatchesAt(atoms, text, i) ==
    /\ i + Len(atoms) - 1 <= Len(text)
    /\ \A k \in 1..Len(atoms) : AtomMatches(atoms[k], text[i + k - 1])

\* the pattern matches somewhere in text (unanchored)
RegexSearch(p, text) ==
    \E i \in 1..(Len(text) + 1) : MatchesAt(Atoms(p), text, i)

\* collection.find_one({"title": {"$regex": p, "$options": "i"}}): the index of
\* the first matching document in natural order, 0 when none matches
FindOne(coll, p) ==
    IF \E i \in 1..Len(coll) : RegexSearch(p, coll[i].title)
    THEN CHOOSE i \in 1..Len(coll) :
            /\ RegexSearch(p, coll[i].title)
            /\ \A j \in 1..(i - 1) : ~RegexSearch(p, coll[j].title)
    ELSE 0

----------------------------------------------------------------------------
(* The secret store and the client factory *)

PyNone == "<None>"

\* the states of the secret "mongodb-connection-string": no access (missing,
\* denied, transport error), an empty payload, a payload that is no MongoDB
\* URI, and two connection strings (before and after a rotation)
SecretStates == {"unavailable", "", "garbage", "mongodb+srv://v1", "mongodb+srv://v2"}

\* a resolver that falls back on a built-in connection string
get_secret_default(state) ==
    IF state \in {"unavailable", ""} THEN "mongodb+srv://v1" ELSE state

\* get_secret: the payload, or None when access_secret_version raises
get_secret(state) == IF state = "unavailable" THEN PyNone ELSE state

\* `not connection_string`
NoConnectionString(cs) == cs = PyNone \/ cs = ""

\* MongoClient(connection_string) raises InvalidURI unless the scheme is MongoDB's
ValidUri(cs) == cs \in {"mongodb+srv://v1", "mongodb+srv://v2"}

\* MongoClient(connection_string): the handle, which connects on first use
MongoClient(cs) == [cred |-> cs]

----------------------------------------------------------------------------
(* Requests and responses *)

NoReq == [method |-> "", path |-> "", body |-> [kind |-> "none"]]
NoResp == [status |-> 0, body |-> [pending |-> TRUE]]

\* jsonify(...) with Flask's default status
Ok(body) == [status |-> 200, body |-> body]

\* an exception that leaves the handler: the server's own error page
Unformatted(msg) == [status |-> 500, body |-> [html |-> msg]]

\* the `except Exception` block of both POST handlers
HandlerError(msg) == [status |-> 500, body |-> [error |-> msg]]

\* the validation failure of both POST handlers
ValidationError(msg) == [status |-> 400, body |-> [error |-> msg]]

\* the loop converting ObjectId to string in find_movies
ConvertIds(results) ==
    [i \in DOMAIN results |-> [results[i] EXCEPT !._id = str(@)]]

\* a search that reports an empty result as not found
SearchResponseOrNotFound(query, results) ==
    IF results = <<>>
    THEN [status |-> 404, body |-> [success |-> FALSE, message |-> "No movies found"]]
    ELSE [status |-> 200, body |-> [success |-> TRUE, query |-> query,
                                    results |-> results, count |-> Len(results)]]

\* the response of find_movies once the pipeline has run
SearchResponse(query, results) ==
    Ok([success |-> TRUE, query |-> query, results |-> results, count |-> Len(results)])

\* the response of find_movie_by_title once the lookup has run: movie is the
\* document found, or <<>> standing for None
TitleResponse(title, movie) ==
    IF movie # <<>>
    THEN Ok([success |-> TRUE, movie |-> [movie[1] EXCEPT !._id = str(@)]])
    ELSE Ok([success |-> FALSE,
             message |-> <<"Movie with title ", title.s, " not found">>])

\* a request body: a JSON object with its fields, a JSON value that is no
\* object (data.get raises), or a body get_json() cannot parse
Object(query, limit, title) ==
    [kind |-> "object", query |-> query, limit |-> limit, title |-> title]
NonObject == [kind |-> "array", query |-> Absent, limit |-> Absent, title |-> Absent]
Malformed == [kind |-> "malformed", query |-> Absent, limit |-> Absent, title |-> Absent]

\* request.get_json() followed by the first data.get: the exception raised, if any
ParseError(body) ==
    CASE body.kind = "malformed" -> "400 Bad Request: Failed to decode JSON object"
      [] body.kind = "array" -> "'list' object has no attribute 'get'"
      [] OTHER -> ""

Finish(r, response) ==
    /\ resp' = [resp EXCEPT ![r] = response]
    /\ pc' = [pc EXCEPT ![r] = "done"]

\* the preflight branch of both POST routes
Preflight(r, path) ==
    /\ pc[r] = "idle"
    /\ req' = [req EXCEPT ![r] = [method |-> "OPTIONS", path |-> path, body |-> Malformed]]
    /\ Finish(r, Ok([status |-> "ok"]))
    /\ UNCHANGED <<secretCalls, handles, storeCalls, secret, storeUp, collection>>

\* find_movies up to the connection: parsing and validation
find_movies_validate(r, body) ==
    /\ pc[r] = "idle"
    /\ req' = [req EXCEPT ![r] = [method |-> "POST", path |-> "/find_movies", body |-> body]]
    /\ IF ParseError(body) # ""
       THEN Finish(r, HandlerError(ParseError(body)))
       ELSE IF ~Truthy(DictGet(body, "query", StrV(<<>>)))
       THEN Finish(r, ValidationError("Query parameter is required"))
       ELSE /\ pc' = [pc EXCEPT ![r] = "connect"]
            /\ UNCHANGED resp
    /\ UNCHANGED <<secretCalls, handles, storeCalls, secret, storeUp, collection>>

\* find_movie_by_title up to the connection: parsing and validation
find_movie_by_title_validate(r, body) ==
    /\ pc[r] = "idle"
    /\ req' = [req EXCEPT ![r] =
                  [method |-> "POST", path |-> "/find_movie_by_title", body |-> body]]
    /\ IF ParseError(body) # ""
       THEN Finish(r, HandlerError(ParseError(body)))
       ELSE IF ~Truthy(DictGet(body, "title", StrV(<<>>)))
       THEN Finish(r, ValidationError("Title parameter is required"))
       ELSE /\ pc' = [pc EXCEPT ![r] = "connect"]
            /\ UNCHANGED resp
    /\ UNCHANGED <<secretCalls, handles, storeCalls, secret, storeUp, collection>>

\* a client factory that keeps the client in a module-level variable: a request
\* finding a handle another request made uses it and fetches no secret
get_mongodb_client_cached(r) ==
    /\ pc[r] = "connect"
    /\ IF \E q \in DOMAIN pc : q # r /\ handles[q] # <<>>
       THEN LET q == CHOOSE q \in DOMAIN pc : q # r /\ handles[q] # <<>> IN
            /\ handles' = [handles EXCEPT ![r] = Append(@, handles[q][1])]
            /\ pc' = [pc EXCEPT ![r] = "query"]
            /\ UNCHANGED <<resp, secretCalls>>
       ELSE /\ secretCalls' = [secretCalls EXCEPT ![r] = Append(@, secret)]
            /\ IF ~ValidUri(get_secret(secret))
               THEN /\ resp' = [resp EXCEPT ![r] =
                                   [status |-> 500, body |-> [error |-> "no client"]]]
                    /\ pc' = [pc EXCEPT ![r] = "done"]
                    /\ UNCHANGED handles
               ELSE /\ handles' = [handles EXCEPT ![r] = Append(@, MongoClient(secret))]
                    /\ pc' = [pc EXCEPT ![r] = "query"]
                    /\ UNCHANGED resp
    /\ UNCHANGED <<req, storeCalls, secret, storeUp, collection>>

\* get_mongodb_client, called by both POST handlers once validation passed:
\* one get_secret call, then the client construction
get_mongodb_client(r) ==
    /\ pc[r] = "connect"
    /\ secretCalls' = [secretCalls EXCEPT ![r] = Append(@, secret)]
    /\ LET connection_string == get_secret(secret) IN
       IF NoConnectionString(connection_string)
       THEN /\ Finish(r, HandlerError("MongoDB connection string not found in secrets"))
            /\ UNCHANGED handles
       ELSE IF ~ValidUri(connection_string)
       THEN /\ Finish(r, HandlerError("Invalid URI scheme"))
            /\ UNCHANGED handles
       ELSE /\ handles' = [handles EXCEPT ![r] = Append(@, MongoClient(connection_string))]
            /\ pc' = [pc EXCEPT ![r] = "query"]
            /\ UNCHANGED resp
    /\ UNCHANGED <<req, storeCalls, secret, storeUp, collection>>

StoreCall(r, op, outcome) ==
    storeCalls' = [storeCalls EXCEPT ![r] = Append(@, [op |-> op, outcome |-> outcome])]

\* find_movies from the pipeline to the response
find_movies_query(r) ==
    /\ pc[r] = "query"
    /\ req[r].path = "/find_movies"
    /\ LET query == DictGet(req[r].body, "query", StrV(<<>>))
           limit == DictGet(req[r].body, "limit", IntV(10))
       IN  IF ~storeUp
           THEN /\ StoreCall(r, "aggregate", "unreachable")
                /\ Finish(r, HandlerError("ServerSelectionTimeoutError"))
           ELSE IF ~(QueryAccepted(query) /\ LimitAccepted(limit))
           THEN /\ StoreCall(r, "aggregate", "rejected")
                /\ Finish(r, HandlerError("OperationFailure"))
           ELSE \E h \in RankedHits(collection) :
                  LET results == ConvertIds(Aggregate(collection, h, limit)) IN
                  /\ StoreCall(r, "aggregate", "ok")
                  /\ Finish(r, SearchResponse(query, results))
    /\ UNCHANGED <<req, secretCalls, handles, secret, storeUp, collection>>

\* find_movie_by_title from the lookup to the response
find_movie_by_title_query(r) ==
    /\ pc[r] = "query"
    /\ req[r].path = "/find_movie_by_title"
    /\ LET title == DictGet(req[r].body, "title", StrV(<<>>)) IN
       IF ~storeUp
       THEN /\ StoreCall(r, "find_one", "unreachable")
            /\ Finish(r, HandlerError("ServerSelectionTimeoutError"))
       ELSE IF title.t # "str" \/ ~RegexCompiles(title.s)
       THEN /\ StoreCall(r, "find_one", "rejected")
            /\ Finish(r, HandlerError("OperationFailure"))
       ELSE LET i == FindOne(collection, title.s) IN
            /\ StoreCall(r, "find_one", "ok")
            /\ Finish(r, TitleResponse(title,
                   IF i # 0 THEN <<Project(collection[i])>> ELSE <<>>))
    /\ UNCHANGED <<req, secretCalls, handles, secret, storeUp, collection>>

\* a health check that pings the store
health_check_probing(r) ==
    /\ pc[r] = "idle"
    /\ req' = [req EXCEPT ![r] = [method |-> "GET", path |-> "/health", body |-> Malformed]]
    /\ StoreCall(r, "ping", IF storeUp THEN "ok" ELSE "unreachable")
    /\ Finish(r, Ok([status |-> IF storeUp THEN "healthy" ELSE "unhealthy",
                     service |-> "mongodb-vertex-api"]))
    /\ UNCHANGED <<secretCalls, handles, secret, storeUp, collection>>

\* GET /health
health_check(r) ==
    /\ pc[r] = "idle"
    /\ req' = [req EXCEPT ![r] = [method |-> "GET", path |-> "/health", body |-> Malformed]]
    /\ Finish(r, Ok([status |-> "healthy", service |-> "mongodb-vertex-api"]))
    /\ UNCHANGED <<secretCalls, handles, storeCalls, secret, storeUp, collection>>

\* The environment: the secret is created, deleted, emptied or rotated, the
\* store goes down or comes back, at any moment.
SecretChange(s) ==
    /\ s # secret
    /\ secret' = s
    /\ UNCHANGED <<pc, req, resp, secretCalls, handles, storeCalls, storeUp, collection>>

StoreChange ==
    /\ storeUp' = ~storeUp
    /\ UNCHANGED <<pc, req, resp, secretCalls, handles, storeCalls, secret, collection>>

----------------------------------------------------------------------------
(* Inputs *)

Strings(n) == UNION {[1..k -> Chars] : k \in 0..n}

\* a title as the caller may retype it: as stored, in lower case, in upper case
Retyped(t) == {t, [i \in DOMAIN t |-> Lower(t[i])], [i \in DOMAIN t |-> Upper(t[i])]}

TitleStrings ==
    Strings(MaxLen) \cup UNION {Retyped(Catalogue[i].title) : i \in 1..Len(Catalogue)}

QueryValues == {Absent, Null, StrV(<<>>), StrV(<<"a">>), IntV(0), IntV(5)}
LimitValues == {Absent, Null, BigInt, StrV(<<"1">>)} \cup {IntV(n) : n \in -1..MaxLimit}
TitleValues == {Absent, Null, IntV(0), IntV(5)} \cup {StrV(s) : s \in TitleStrings}

SearchBodies ==
    {Malformed, NonObject} \cup {Object(q, l, Absent) : q \in QueryValues, l \in LimitValues}
TitleBodies ==
    {Malformed, NonObject} \cup {Object(Absent, Absent, t) : t \in TitleValues}

\* the bodies of the concurrent specification
FewSearchBodies == {Malformed, Object(StrV(<<"a">>), IntV(1), Absent)}
FewTitleBodies ==
    {Object(Absent, Absent, StrV(<<>>)), Object(Absent, Absent, StrV(<<"A", "B">>))}

Paths == {"/find_movies", "/find_movie_by_title"}

----------------------------------------------------------------------------
(* Specifications *)

InitWith(R, Colls) ==
    /\ pc = [r \in R |-> "idle"]
    /\ req = [r \in R |-> NoReq]
    /\ resp = [r \in R |-> NoResp]
    /\ secretCalls = [r \in R |-> <<>>]
    /\ handles = [r \in R |-> <<>>]
    /\ storeCalls = [r \in R |-> <<>>]
    /\ secret \in SecretStates
    /\ storeUp \in BOOLEAN
    /\ collection \in Colls

Requests == DOMAIN pc

\* NumRequests concurrent requests
Init == InitWith(1..NumRequests, SmallCollections)

Next ==
    \/ \E r \in Requests, p \in Paths : Preflight(r, p)
    \/ \E r \in Requests, b \in FewSearchBodies : find_movies_validate(r, b)
    \/ \E r \in Requests, b \in FewTitleBodies : find_movie_by_title_validate(r, b)
    \/ \E r \in Requests : get_mongodb_client(r)
    \/ \E r \in Requests : find_movies_query(r)
    \/ \E r \in Requests : find_movie_by_title_query(r)
    \/ \E r \in Requests : health_check(r)
    \/ \E s \in SecretStates : SecretChange(s)
    \/ StoreChange

Spec == Init /\ [][Next]_vars

\* one request, every input
InitInputs == InitWith({1}, AllCollections)

NextInputs ==
    \/ \E r \in Requests, p \in Paths : Preflight(r, p)
    \/ \E r \in Requests, b \in SearchBodies : find_movies_validate(r, b)
    \/ \E r \in Requests, b \in TitleBodies : find_movie_by_title_validate(r, b)
    \/ \E r \in Requests : get_mongodb_client(r)
    \/ \E r \in Requests : find_movies_query(r)
    \/ \E r \in Requests : find_movie_by_title_query(r)
    \/ \E r \in Requests : health_check(r)
    \/ \E s \in SecretStates : SecretChange(s)
    \/ StoreChange

SpecInputs == InitInputs /\ [][NextInputs]_vars

----------------------------------------------------------------------------
(* Properties *)

Done(r) == pc[r] = "done"
IsPost(r, path) == req[r].method = "POST" /\ req[r].path = path
Field(r, key) == req[r].body[key]
HasError(r) == "error" \in DOMAIN resp[r].body
NoCalls(r) == secretCalls[r] = <<>> /\ handles[r] = <<>> /\ storeCalls[r] = <<>>
EmptyOrMissing(v) == v \in {Absent, Null, StrV(<<>>)}
NonEmptyString(v) == v.t = "str" /\ v.s # <<>>
\* the store ran the operation of r and answered it
StoreAnswered(r, op) == storeCalls[r] = <<[op |-> op, outcome |-> "ok"]>>
\* the store was reached by the operation of r, whatever it answered
StoreReached(r) == storeCalls[r] # <<>> /\ storeCalls[r][1].outcome # "unreachable"
RequiredField(r) ==
    IF req[r].path = "/find_movies" THEN Field(r, "query") ELSE Field(r, "title")

\* C1: a POST request whose JSON object has an empty or missing required field
\* (query for /find_movies, title for /find_movie_by_title) is answered 400
\* with an error field, and has called neither the secret resolver nor the store.
C1_EmptyFieldRejected ==
    \A r \in Requests :
        (/\ Done(r)
         /\ req[r].method = "POST"
         /\ req[r].body.kind = "object"
         /\ EmptyOrMissing(RequiredField(r)))
        => (resp[r].status = 400 /\ HasError(r) /\ NoCalls(r))

C1_Witness ==
    \E r \in Requests :
        /\ Done(r) /\ IsPost(r, "/find_movie_by_title")
        /\ Field(r, "title") = StrV(<<>>)
        /\ resp[r].status = 400
        /\ secret = "mongodb+srv://v1" /\ storeUp

\* C2: a title lookup that the store ran and that matched no document is
\* answered 404 with success=false and a message field.
C2_NotFoundIs404 ==
    \A r \in Requests :
        (/\ Done(r)
         /\ IsPost(r, "/find_movie_by_title")
         /\ NonEmptyString(Field(r, "title"))
         /\ StoreAnswered(r, "find_one")
         /\ FindOne(collection, Field(r, "title").s) = 0)
        => (/\ resp[r].status = 404
            /\ "success" \in DOMAIN resp[r].body
            /\ resp[r].body.success = FALSE
            /\ "message" \in DOMAIN resp[r].body)

\* the limit find_movies puts in the pipeline
RequestedLimit(r) == DictGet(req[r].body, "limit", IntV(10))

SearchSucceeded(r) ==
    /\ resp[r].status = 200
    /\ "success" \in DOMAIN resp[r].body
    /\ resp[r].body.success = TRUE
    /\ "results" \in DOMAIN resp[r].body

\* C3 as claimed: for every non-empty query string and every limit value, a
\* search that reached the store returns success=true and at most limit results.
C3_AnyLimit ==
    \A r \in Requests :
        (/\ Done(r)
         /\ IsPost(r, "/find_movies")
         /\ NonEmptyString(Field(r, "query"))
         /\ StoreReached(r))
        => (/\ SearchSucceeded(r)
            /\ RequestedLimit(r).t = "int" =>
                   Len(resp[r].body.results) <= RequestedLimit(r).n)

\* C3 as amended: with a non-empty query string and a limit that is a positive
\* 64-bit integer (10 when absent), a search that reached the store returns
\* success=true and at most limit results; with any other limit the store
\* rejects the pipeline and the answer is 500 with an error field.
C3_PositiveLimit ==
    \A r \in Requests :
        (/\ Done(r)
         /\ IsPost(r, "/find_movies")
         /\ NonEmptyString(Field(r, "query"))
         /\ StoreReached(r))
        => IF RequestedLimit(r).t = "int" /\ RequestedLimit(r).n > 0
           THEN /\ SearchSucceeded(r)
                /\ Len(resp[r].body.results) <= RequestedLimit(r).n
           ELSE resp[r].status = 500 /\ HasError(r)

C3_Witness ==
    \E r \in Requests :
        /\ Done(r) /\ IsPost(r, "/find_movies")
        /\ Field(r, "limit") = IntV(2)
        /\ Len(collection) = 4
        /\ SearchSucceeded(r)
        /\ Len(resp[r].body.results) = 2

LowerAll(t) == [i \in DOMAIN t |-> Lower(t[i])]

\* C4: a title lookup that reached the store, with a title equal up to letter
\* case to the title of a document of the collection, returns success=true and
\* a movie whose identifier is a plain string.
C4_ExactTitleFound ==
    \A r \in Requests :
        (/\ Done(r)
         /\ IsPost(r, "/find_movie_by_title")
         /\ NonEmptyString(Field(r, "title"))
         /\ StoreReached(r)
         /\ \E i \in 1..Len(collection) :
                LowerAll(collection[i].title) = LowerAll(Field(r, "title").s))
        => (/\ resp[r].status = 200
            /\ "movie" \in DOMAIN resp[r].body
            /\ resp[r].body.success = TRUE
            /\ resp[r].body.movie._id.t = "str")

\* C5: GET /health answers status "healthy" and service "mongodb-vertex-api"
\* whatever the state of the secret store and of the document store, and calls
\* neither.
C5_HealthAlwaysHealthy ==
    \A r \in Requests :
        (Done(r) /\ req[r].path = "/health")
        => (/\ resp[r] = [status |-> 200,
                          body |-> [status |-> "healthy", service |-> "mongodb-vertex-api"]]
            /\ NoCalls(r))

C5_Witness ==
    \E r \in Requests :
        /\ Done(r) /\ req[r].path = "/health"
        /\ secret = "unavailable" /\ ~storeUp

\* the secret store failed or returned no value at the call of r
SecretFailed(r) == secretCalls[r] # <<>> /\ secretCalls[r][1] \in {"unavailable", ""}

\* C6: a request whose secret fetch failed or returned no value ends with 500
\* and an error field after exactly one resolver call, having made no store
\* handle and run no query.
C6_SecretFailureIs500 ==
    \A r \in Requests :
        /\ Len(secretCalls[r]) <= 1
        /\ SecretFailed(r)
           => (/\ Done(r)
               /\ resp[r].status = 500 /\ HasError(r)
               /\ handles[r] = <<>>
               /\ storeCalls[r] = <<>>)

C6_Witness ==
    \E r \in Requests :
        /\ Done(r) /\ IsPost(r, "/find_movies")
        /\ secretCalls[r] = <<"unavailable">>
        /\ resp[r].status = 500

PlainString(id) == id.t = "str" /\ str(id) = id

\* C7: every movie record of a response (each element of results, and movie)
\* has an identifier that is a plain string, which converting again leaves
\* unchanged.
C7_IdentifiersAreStrings ==
    \A r \in Requests :
        Done(r)
        => (/\ "results" \in DOMAIN resp[r].body
               => \A i \in DOMAIN resp[r].body.results :
                      PlainString(resp[r].body.results[i]._id)
            /\ "movie" \in DOMAIN resp[r].body
               => PlainString(resp[r].body.movie._id))

C7_Witness ==
    \E r \in Requests :
        /\ Done(r)
        /\ "results" \in DOMAIN resp[r].body
        /\ Len(resp[r].body.results) = 2
        /\ resp[r].body.results[1]._id = str(ObjectId(3))
        /\ resp[r].body.results[2]._id = StrV(<<"k">>)

\* something failed while r was handled: the body did not parse, the secret
\* was unusable, or the store operation raised
Failed(r) ==
    \/ req[r].body.kind \in {"malformed", "array"}
    \/ secretCalls[r] # <<>> /\ ~ValidUri(secretCalls[r][1])
    \/ storeCalls[r] # <<>> /\ storeCalls[r][1].outcome # "ok"

Formatted(r) ==
    /\ resp[r].status \in {200, 400, 500}
    /\ "pending" \notin DOMAIN resp[r].body
    /\ resp[r].status = 500 => HasError(r)

\* C8: every failure while a POST request is handled is answered 500 with an
\* error field; every finished POST request has a formatted response, and an
\* unfinished one can always take its next step.
C8_FailuresAre500 ==
    \A r \in Requests :
        /\ (Done(r) /\ req[r].method = "POST")
           => (Formatted(r) /\ (Failed(r) => resp[r].status = 500 /\ HasError(r)))
        /\ pc[r] = "connect" => ENABLED get_mongodb_client(r)
        /\ pc[r] = "query"
           => ENABLED (find_movies_query(r) \/ find_movie_by_title_query(r))

C8_Witness ==
    \E r \in Requests :
        /\ Done(r) /\ IsPost(r, "/find_movie_by_title")
        /\ storeCalls[r] = <<[op |-> "find_one", outcome |-> "rejected"]>>
        /\ resp[r].status = 500 /\ HasError(r)

Validated(r) ==
    /\ req[r].method = "POST"
    /\ req[r].body.kind = "object"
    /\ Truthy(DictGet(req[r].body, IF req[r].path = "/find_movies" THEN "query" ELSE "title",
                      StrV(<<>>)))

\* C10: under every interleaving, a validated POST request makes one resolver
\* call of its own and opens at most one handle, whose credential is the value
\* its own call returned; it queries the store only through that handle; and
\* it fails with 500 when the secret was unusable at its own call, whatever
\* other requests obtained.
C10_NoSharedCredential ==
    \A r \in Requests :
        /\ Len(secretCalls[r]) <= 1 /\ Len(handles[r]) <= 1
        /\ (pc[r] = "query" \/ (Done(r) /\ Validated(r))) => Len(secretCalls[r]) = 1
        /\ handles[r] # <<>>
           => (secretCalls[r] # <<>> /\ handles[r][1].cred = secretCalls[r][1])
        /\ storeCalls[r] # <<>> => handles[r] # <<>>
        /\ (secretCalls[r] # <<>> /\ ~ValidUri(secretCalls[r][1]))
           => (Done(r) /\ resp[r].status = 500 /\ handles[r] = <<>>)

C10_Witness ==
    \E r, q \in Requests :
        /\ Done(r) /\ SearchSucceeded(r)
        /\ handles[r] = <<[cred |-> "mongodb+srv://v1"]>>
        /\ Done(q) /\ IsPost(q, "/find_movies")
        /\ secretCalls[q] = <<"unavailable">>
        /\ resp[q].status = 500

====
